---- MODULE Spec2Model ----
(***************************************************************************)
(* Random parameter search (WPT Parameter Search 2): the sampler, the      *)
(* classifier and the trial loop of main.go, with the Ctrl-C goroutine.    *)
(*                                                                         *)
(* Numbers.  float64 is replaced by a small grid: parameter values are    *)
(* integers, logarithms carry one fractional bit (they are kept in half   *)
(* units, base 2), and every arithmetic result is rounded to the nearest  *)
(* grid point, as float64 rounds to the nearest representable number.     *)
(* The evaluator output and the interval ends are extended values          *)
(* (finite, NaN, +Inf, -Inf).                                              *)
(***************************************************************************)
EXTENDS Integers, Sequences, FiniteSets, TLC

\* ------------------------------------------------------------------ bounds
\* Largest MaxIters a configuration may ask for.
MaxItersBound == 3
\* Largest MaxOKSave / MaxNGSave a configuration may ask for.
MaxSaveBound == 2
\* Number of states of the pseudo-random generator.
RngMod == 8
\* Resolution of a draw: Float64 returns u = k / UDen, k in 0..UDen-1.
UDen == 4

\* ------------------------------------------------------------- Scale (iota)
Linear == 0
Log == 1
\* a Scale value outside the declared constants
UnknownScale == 2

\* --------------------------------------------------------------- arithmetic
\* a / b rounded to the nearest integer (b > 0, a >= 0), ties upwards.
RoundDiv(a, b) == (2 * a + b) \div (2 * b)

RECURSIVE Pow(_, _)
Pow(b, e) == IF e <= 0 THEN 1 ELSE b * Pow(b, e - 1)

\* floor(log2 n), n >= 1
RECURSIVE FloorLog2(_)
FloorLog2(n) == IF n < 2 THEN 0 ELSE 1 + FloorLog2(n \div 2)

\* floor(sqrt n), n >= 0
ISqrt(n) == CHOOSE r \in 0..n : r * r <= n /\ (r + 1) * (r + 1) > n

\* math.Log on x > 0: the logarithm rounded to the nearest half unit,
\* returned in half units: round(2 * log2 x) = floor(log2(2 * x^4) / 2).
MathLog(x) == FloorLog2(2 * Pow(x, 4)) \div 2

\* math.Exp on a logarithm e >= 0 in half units: 2^(e/2) rounded to the
\* nearest integer: floor(sqrt(2^e) + 1/2) = (floor(sqrt(4 * 2^e)) + 1) \div 2.
MathExp(e) == (ISqrt(4 * Pow(2, e)) + 1) \div 2

\* ------------------------------------------------------------------- rand
\* rand.New(rand.NewSource(seed)): the generator's state, and the number of
\* draws taken from it so far.  The generator of math/rand is replaced by a
\* linear congruential one with RngMod states: like it, a deterministic
\* function of the seed and of the number of draws taken.
NewRand(seed) == [s |-> seed % RngMod, n |-> 0]

\* rng.Float64(): advances the generator and returns u = k / UDen in [0,1).
Float64(rng) ==
    LET s2 == (5 * rng.s + 3) % RngMod
    IN  [k |-> (s2 * UDen) \div RngMod, rng |-> [s |-> s2, n |-> rng.n + 1]]

\* ---------------------------------------------------------------- sampleOne
\* sampleOne with a shortcut for Min = Max: the point itself, and no draw.
sampleOnePinned(rng, p) ==
    IF p.Max < p.Min
    THEN [v |-> 0, err |-> "Max < Min", rng |-> rng]
    ELSE IF p.Scale = Linear
    THEN IF p.Min = p.Max THEN [v |-> p.Min, err |-> "", rng |-> rng]
         ELSE LET d == Float64(rng)
              IN  [v |-> p.Min + RoundDiv(d.k * (p.Max - p.Min), UDen),
                   err |-> "", rng |-> d.rng]
    ELSE IF p.Scale = Log
    THEN IF p.Min <= 0 \/ p.Max <= 0
         THEN [v |-> 0, err |-> "log sampling requires Min>0 and Max>0", rng |-> rng]
         ELSE IF p.Min = p.Max THEN [v |-> MathExp(MathLog(p.Min)), err |-> "", rng |-> rng]
         ELSE LET lnMin == MathLog(p.Min)
                  lnMax == MathLog(p.Max)
                  d == Float64(rng)
              IN  [v |-> MathExp(lnMin + RoundDiv(d.k * (lnMax - lnMin), UDen)),
                   err |-> "", rng |-> d.rng]
    ELSE [v |-> 0, err |-> "unknown scale", rng |-> rng]

\* Returns the value, the error ("" for nil) and the generator afterwards.
sampleOne(rng, p) ==
    IF p.Max < p.Min
    THEN [v |-> 0, err |-> "Max < Min", rng |-> rng]
    ELSE IF p.Scale = Linear
    THEN LET d == Float64(rng)
         IN  [v |-> p.Min + RoundDiv(d.k * (p.Max - p.Min), UDen),
              err |-> "", rng |-> d.rng]
    ELSE IF p.Scale = Log
    THEN IF p.Min <= 0 \/ p.Max <= 0
         THEN [v |-> 0, err |-> "log sampling requires Min>0 and Max>0", rng |-> rng]
         ELSE LET lnMin == MathLog(p.Min)
                  lnMax == MathLog(p.Max)
                  d == Float64(rng)
              IN  [v |-> MathExp(lnMin + RoundDiv(d.k * (lnMax - lnMin), UDen)),
                   err |-> "", rng |-> d.rng]
    ELSE [v |-> 0, err |-> "unknown scale", rng |-> rng]

\* ------------------------------------------------- extended float64 values
Fin(v) == [k |-> "fin", v |-> v]
NaN == [k |-> "nan", v |-> 0]
PInf == [k |-> "pinf", v |-> 0]
NInf == [k |-> "ninf", v |-> 0]

\* math.IsNaN(y)
IsNaN(y) == y.k = "nan"
\* math.IsInf(y, 0)
IsInf(y) == y.k \in {"pinf", "ninf"}

\* a <= b on float64: false as soon as one side is NaN.
Leq(a, b) ==
    IF a.k = "nan" \/ b.k = "nan" THEN FALSE
    ELSE IF a.k = "ninf" \/ b.k = "pinf" THEN TRUE
    ELSE IF a.k = "pinf" \/ b.k = "ninf" THEN FALSE
    ELSE a.v <= b.v

\* a / b on float64 for finite integers a, b: division by zero gives an
\* infinity or NaN, it does not trap.
FDiv(a, b) ==
    IF b = 0 THEN (IF a = 0 THEN NaN ELSE IF a > 0 THEN PInf ELSE NInf)
    ELSE IF b > 0
    THEN (IF a >= 0 THEN Fin(RoundDiv(a, b)) ELSE Fin(0 - RoundDiv(0 - a, b)))
    ELSE (IF a >= 0 THEN Fin(0 - RoundDiv(a, 0 - b)) ELSE Fin(RoundDiv(0 - a, 0 - b)))

inRange(x, r) == Leq(r.Min, x) /\ Leq(x, r.Max)

\* Classify without the math.IsInf test.
ClassifyNoInf(y, r) == ~IsNaN(y) /\ inRange(y, r)

\* Classify with the interval test alone, under an order in which NaN compares
\* as inside every interval.
ClassifyNaNPasses(y, r) == ~IsInf(y) /\ (IsNaN(y) \/ inRange(y, r))

\* ok := !math.IsNaN(y) && !math.IsInf(y, 0) && inRange(y, yRange)
Classify(y, r) == ~IsNaN(y) /\ ~IsInf(y) /\ inRange(y, r)

\* ---------------------------------------------------------------- evaluator
\* The plain map read x[key]: the zero value for a missing key, no panic.
GetDefault(x, key) ==
    IF key \in DOMAIN x THEN [v |-> x[key], panic |-> FALSE]
    ELSE [v |-> 0, panic |-> FALSE]

\* Get(x, key): the value and whether the lookup panicked.
Get(x, key) ==
    IF key \in DOMAIN x THEN [v |-> x[key], panic |-> FALSE]
    ELSE [v |-> 0, panic |-> TRUE]

\* cfg.F, the user function.  Three user functions are modelled:
\*   "id"   returns Get(x, "a");
\*   "div"  returns Get(x, "a") / Get(x, "b") (unguarded division);
\*   "nan"  returns math.NaN() whatever x is.
f(F, x) ==
    IF F = "nan" THEN [y |-> NaN, panic |-> FALSE]
    ELSE IF F = "id"
    THEN LET a == Get(x, "a")
         IN  [y |-> Fin(a.v), panic |-> a.panic]
    ELSE LET a == Get(x, "a")
             b == Get(x, "b")
         IN  IF a.panic \/ b.panic THEN [y |-> NaN, panic |-> TRUE]
             ELSE [y |-> FDiv(a.v, b.v), panic |-> FALSE]

\* ------------------------------------------------------------ configurations
Param(key, min, max, scale) == [Key |-> key, Min |-> min, Max |-> max, Scale |-> scale]

\* cfg.Params, cfg.F and cfg.YRange of the configurations explored: valid
\* sweeps (linear, logarithmic, degenerate Min = Max, NaN and infinite
\* outputs) and the configuration defects the code reacts to.
Problems ==
    { [Params |-> <<Param("a", -2, 2, Linear)>>, F |-> "id",
       YRange |-> [Min |-> Fin(0), Max |-> Fin(1)]],
      [Params |-> <<Param("a", -1, 2, Linear), Param("b", 0, 1, Linear)>>, F |-> "div",
       YRange |-> [Min |-> Fin(1), Max |-> PInf]],
      [Params |-> <<Param("a", 1, 4, Log), Param("b", 5, 5, Log)>>, F |-> "id",
       YRange |-> [Min |-> NInf, Max |-> Fin(2)]],
      [Params |-> <<Param("a", 2, 2, Linear)>>, F |-> "nan",
       YRange |-> [Min |-> NInf, Max |-> PInf]],
      [Params |-> <<Param("a", 0, 3, Linear), Param("b", 0, 4, Log)>>, F |-> "id",
       YRange |-> [Min |-> Fin(0), Max |-> Fin(1)]],
      [Params |-> <<Param("a", 3, 1, Linear)>>, F |-> "id",
       YRange |-> [Min |-> Fin(0), Max |-> Fin(1)]],
      [Params |-> <<Param("a", 1, 2, UnknownScale)>>, F |-> "id",
       YRange |-> [Min |-> Fin(0), Max |-> Fin(1)]],
      [Params |-> <<Param("a", 0, 3, Linear), Param("a", 0, 1, Linear)>>, F |-> "id",
       YRange |-> [Min |-> Fin(0), Max |-> Fin(1)]],
      [Params |-> <<Param("", 0, 3, Linear)>>, F |-> "nan",
       YRange |-> [Min |-> Fin(0), Max |-> Fin(1)]],
      [Params |-> <<Param("a", 0, 3, Linear)>>, F |-> "div",
       YRange |-> [Min |-> Fin(0), Max |-> Fin(1)]] }

\* cfg.PrintEvery with cfg.XLSXFile, cfg.OKTSVFile and cfg.NGTSVFile ("" = do
\* not save).
Reporting ==
    { [PrintEvery |-> -1, XLSXFile |-> "result.xlsx", OKTSVFile |-> "", NGTSVFile |-> ""],
      [PrintEvery |-> 0, XLSXFile |-> "", OKTSVFile |-> "", NGTSVFile |-> ""],
      [PrintEvery |-> 1, XLSXFile |-> "", OKTSVFile |-> "ok.tsv", NGTSVFile |-> "ng.tsv"],
      [PrintEvery |-> 2, XLSXFile |-> "result.xlsx", OKTSVFile |-> "ok.tsv",
       NGTSVFile |-> "ng.tsv"] }

Seeds == 0..(RngMod \div 2 - 1)

\* Config, as DefaultConfig / LocalOverride may return it.
Configs ==
    { [Params |-> q.Params, YRange |-> q.YRange, F |-> q.F,
       MaxIters |-> mi, MaxOKSave |-> mo, MaxNGSave |-> mn,
       PrintEvery |-> r.PrintEvery, Seed |-> sd,
       XLSXFile |-> r.XLSXFile, OKTSVFile |-> r.OKTSVFile, NGTSVFile |-> r.NGTSVFile] :
      q \in Problems, mi \in -1..MaxItersBound, mo \in 0..MaxSaveBound,
      mn \in 0..MaxSaveBound, r \in Reporting, sd \in Seeds }

\* --------------------------------------------------------------------- state
VARIABLES
    cfg,       \* the Config of the run
    pc,        \* main's position: "start", "top", "sample", "eval", "count",
               \* "retain", "incr", "DONE", "exit", "abort", "panic"
    term,      \* how the loop was left: "", "Completed" (break), "Cancelled" (goto DONE)
    rng,       \* the run's *rand.Rand
    iters, okHits, ngHits,
    okList, ngList,
    vals,      \* the assignment of the trial in progress
    j,         \* index of the next parameter to sample
    y, ok,     \* output and classification of the trial in progress
    progress,  \* the lines printProgress has printed
    out,       \* the calls made after DONE, in order
    gpc,       \* the signal goroutine: "nostart", "recv", "got", "end"
    sigCh,     \* number of signals buffered in sigCh (capacity 1)
    ctxDone,   \* ctx.Done() is closed
    hist,      \* history: the Sample of every classified trial, in order
    cancelAt,  \* history: iters and pc when the goroutine called cancel(), or <<>>
    twin       \* a second run of the same configuration, started at another time

vars == <<cfg, pc, term, rng, iters, okHits, ngHits, okList, ngList, vals, j, y, ok,
          progress, out, gpc, sigCh, ctxDone, hist, cancelAt, twin>>

EmptyMap == [k \in {} |-> 0]

mainVars == <<pc, term, rng, iters, okHits, ngHits, okList, ngList, vals, j, y, ok,
              progress, out, hist>>
loopData == <<iters, okHits, ngHits, okList, ngList>>
sigVars == <<gpc, sigCh, ctxDone, cancelAt>>

\* ---------------------------------------------------------------- main, setup
\* The key check without the test for duplicates.
keyCheckEmptyOnly(params) ==
    IF \E i \in 1..Len(params) : params[i].Key = "" THEN "param key is empty" ELSE ""

\* The key check of main: "" when every key is non-empty and distinct, else the
\* panic message of the first offending parameter.
keyCheck(params) ==
    LET bad(i) == params[i].Key = "" \/ \E h \in 1..(i - 1) : params[h].Key = params[i].Key
        B == {i \in 1..Len(params) : bad(i)}
    IN  IF B = {} THEN ""
        ELSE LET i == CHOOSE m \in B : \A n \in B : m <= n
             IN  IF params[i].Key = "" THEN "param key is empty"
                 ELSE "duplicate param key"

\* The seed taken from the wall clock instead of the configuration.
SeedOfClock(c, clock) == clock

\* seed := cfg.Seed, for a run started at wall-clock time clock.
SeedOf(c, clock) == c.Seed

\* The second run, when it reaches the head of its loop for the first time.
TwinStart(c) ==
    [pc |-> IF keyCheck(c.Params) # "" THEN "panic" ELSE "top",
     rng |-> NewRand(SeedOf(c, 1)),
     iters |-> 0, okHits |-> 0, ngHits |-> 0,
     okList |-> <<>>, ngList |-> <<>>, hist |-> <<>>]


\* The state main starts from.
Init ==
    /\ cfg \in Configs
    /\ pc = "start"
    /\ term = ""
    /\ rng = NewRand(0)
    /\ iters = 0 /\ okHits = 0 /\ ngHits = 0
    /\ okList = <<>> /\ ngList = <<>>
    /\ vals = EmptyMap /\ j = 1
    /\ y = NaN /\ ok = FALSE
    /\ progress = <<>> /\ out = <<>>
    /\ gpc = "nostart" /\ sigCh = 0 /\ ctxDone = FALSE
    /\ hist = <<>> /\ cancelAt = <<>>
    /\ twin = TwinStart(cfg)

\* Key check, signal.Notify, the signal goroutine, rng, the empty lists.
Start ==
    /\ pc = "start"
    /\ IF keyCheck(cfg.Params) # ""
       THEN /\ pc' = "panic"
            /\ UNCHANGED <<rng, gpc>>
       ELSE /\ pc' = "top"
            /\ gpc' = "recv"
            /\ rng' = NewRand(SeedOf(cfg, 0))
    /\ UNCHANGED <<cfg, twin, term, iters, okHits, ngHits, okList, ngList, vals, j, y, ok,
                   progress, out, sigCh, ctxDone, hist, cancelAt>>

\* ------------------------------------------------------------ the trial loop
\* The termination checks in the other order: cancellation first.
TopCheckCancelFirst(i, maxIters, done) ==
    IF done THEN "Cancelled"
    ELSE IF i >= maxIters THEN "Completed"
    ELSE ""

\* The loop head without the poll of ctx.Done().
TopCheckNoPoll(i, maxIters, done) == IF i >= maxIters THEN "Completed" ELSE ""

\* The loop head with i > maxIters for i >= maxIters.
TopCheckOffByOne(i, maxIters, done) ==
    IF i > maxIters THEN "Completed"
    ELSE IF done THEN "Cancelled"
    ELSE ""

\* The two termination checks at the head of the loop, in the code's order:
\* the result is "Completed" (break), "Cancelled" (goto DONE) or "" (go on).
TopCheck(i, maxIters, done) ==
    IF i >= maxIters THEN "Completed"
    ELSE IF done THEN "Cancelled"
    ELSE ""

LoopTop ==
    /\ pc = "top"
    /\ LET t == TopCheck(iters, cfg.MaxIters, ctxDone)
       IN  IF t # ""
           THEN /\ pc' = "DONE"
                /\ term' = t
                /\ UNCHANGED <<vals, j>>
           ELSE /\ pc' = IF Len(cfg.Params) = 0 THEN "eval" ELSE "sample"
                /\ vals' = EmptyMap
                /\ j' = 1
                /\ UNCHANGED term
    /\ UNCHANGED <<cfg, twin, rng, loopData, y, ok, progress, out, sigVars, hist>>

\* SampleParam as it would be if the error of sampleOne were dropped and the
\* zero value it comes with were used.
SampleParamIgnoreErr ==
    /\ pc = "sample"
    /\ LET p == cfg.Params[j]
           r == sampleOne(rng, p)
       IN  /\ vals' = (p.Key :> r.v) @@ vals
           /\ j' = j + 1
           /\ rng' = r.rng
           /\ pc' = IF j + 1 > Len(cfg.Params) THEN "eval" ELSE "sample"
    /\ UNCHANGED <<cfg, twin, term, loopData, y, ok, progress, out, sigVars, hist>>

\* One turn of "for _, p := range params": sampleOne, then either the error
\* return or vals[p.Key] = v.
SampleParam ==
    /\ pc = "sample"
    /\ LET p == cfg.Params[j]
           r == sampleOne(rng, p)
       IN  IF r.err # ""
           THEN /\ pc' = "abort"
                /\ ctxDone' = TRUE
                /\ UNCHANGED <<vals, j>>
                /\ rng' = r.rng
           ELSE /\ vals' = (p.Key :> r.v) @@ vals
                /\ j' = j + 1
                /\ rng' = r.rng
                /\ pc' = IF j + 1 > Len(cfg.Params) THEN "eval" ELSE "sample"
                /\ UNCHANGED ctxDone
    /\ UNCHANGED <<cfg, twin, term, loopData, y, ok, progress, out, gpc, sigCh, hist, cancelAt>>

\* y := f(vals) and its classification; Get panics on a missing key.
Eval ==
    /\ pc = "eval"
    /\ LET r == f(cfg.F, vals)
       IN  IF r.panic
           THEN /\ pc' = "panic"
                /\ ctxDone' = TRUE
                /\ UNCHANGED <<y, ok>>
           ELSE /\ y' = r.y
                /\ ok' = Classify(r.y, cfg.YRange)
                /\ pc' = "count"
                /\ UNCHANGED ctxDone
    /\ UNCHANGED <<cfg, twin, term, rng, loopData, vals, j, progress, out, gpc, sigCh, hist,
                   cancelAt>>

\* Count as it would be if a NaN output were dropped without being counted.
CountSkipNaN ==
    /\ pc = "count"
    /\ IF ok
       THEN okHits' = okHits + 1 /\ UNCHANGED ngHits
       ELSE IF IsNaN(y) THEN UNCHANGED <<okHits, ngHits>>
       ELSE ngHits' = ngHits + 1 /\ UNCHANGED okHits
    /\ pc' = "retain"
    /\ UNCHANGED <<cfg, twin, term, rng, iters, okList, ngList, vals, j, y, ok, progress, out,
                   sigVars, hist>>

\* atomic.AddInt64 on the matching hit counter.
Count ==
    /\ pc = "count"
    /\ IF ok
       THEN okHits' = okHits + 1 /\ UNCHANGED ngHits
       ELSE ngHits' = ngHits + 1 /\ UNCHANGED okHits
    /\ pc' = "retain"
    /\ UNCHANGED <<cfg, twin, term, rng, iters, okList, ngList, vals, j, y, ok, progress, out,
                   sigVars, hist>>

\* Keep with the capacity test off by one (<= for <).
KeepOffByOne(list, s, max) == IF max > 0 /\ Len(list) <= max THEN Append(list, s) ELSE list

\* Keep as a ring: a full list drops its oldest entry to take the new one.
KeepRing(list, s, max) ==
    IF max > 0 /\ Len(list) < max THEN Append(list, s)
    ELSE IF max > 0 THEN Append(Tail(list), s)
    ELSE list

\* Keep with the newest entry first.
KeepFront(list, s, max) == IF max > 0 /\ Len(list) < max THEN <<s>> \o list ELSE list

\* "if max > 0 && len(list) < max { list = append(list, s) }"
Keep(list, s, max) == IF max > 0 /\ Len(list) < max THEN Append(list, s) ELSE list

\* Retain as it would be without the else: an OK outcome goes to ngList too.
RetainNoElse ==
    /\ pc = "retain"
    /\ LET s == [Values |-> vals, Y |-> y, OK |-> ok]
       IN  /\ okList' = IF ok THEN Keep(okList, s, cfg.MaxOKSave) ELSE okList
           /\ ngList' = Keep(ngList, s, cfg.MaxNGSave)
           /\ hist' = Append(hist, s)
    /\ pc' = "incr"
    /\ UNCHANGED <<cfg, twin, term, rng, iters, okHits, ngHits, vals, j, y, ok, progress, out,
                   sigVars>>

Retain ==
    /\ pc = "retain"
    /\ LET s == [Values |-> vals, Y |-> y, OK |-> ok]
       IN  /\ IF ok
              THEN okList' = Keep(okList, s, cfg.MaxOKSave) /\ UNCHANGED ngList
              ELSE ngList' = Keep(ngList, s, cfg.MaxNGSave) /\ UNCHANGED okList
           /\ hist' = Append(hist, s)
    /\ pc' = "incr"
    /\ UNCHANGED <<cfg, twin, term, rng, iters, okHits, ngHits, vals, j, y, ok, progress, out,
                   sigVars>>

\* Incr as it would be if the progress test read iters before the increment.
IncrPrintStale ==
    /\ pc = "incr"
    /\ iters' = iters + 1
    /\ IF cfg.PrintEvery > 0 /\ iters % cfg.PrintEvery = 0
       THEN progress' = Append(progress, [i |-> iters, okh |-> okHits, ngh |-> ngHits])
       ELSE UNCHANGED progress
    /\ pc' = "top"
    /\ UNCHANGED <<cfg, twin, term, rng, okHits, ngHits, okList, ngList, vals, j, y, ok, out,
                   sigVars, hist>>

\* n := atomic.AddInt64(&iters, 1), and printProgress(n) every PrintEvery trials.
Incr ==
    /\ pc = "incr"
    /\ iters' = iters + 1
    /\ LET n == iters + 1
       IN  IF cfg.PrintEvery > 0 /\ n % cfg.PrintEvery = 0
           THEN progress' = Append(progress, [i |-> n, okh |-> okHits, ngh |-> ngHits])
           ELSE UNCHANGED progress
    /\ pc' = "top"
    /\ UNCHANGED <<cfg, twin, term, rng, okHits, ngHits, okList, ngList, vals, j, y, ok, out,
                   sigVars, hist>>

\* DONE: the summary, the two tables and the exports that are configured.
Call(step, list, total, okc, ngc) ==
    [step |-> step, list |-> list, total |-> total, okc |-> okc, ngc |-> ngc]

\* Report as it would be if an interrupted run printed its summary only.
ReportSummaryOnly(c, total, okc, ngc, okl, ngl) ==
    IF term = "Cancelled"
    THEN <<Call("PrintSummary", <<>>, total, okc, ngc)>>
    ELSE <<Call("PrintSummary", <<>>, total, okc, ngc),
           Call("PrintSampleTable OK", okl, 0, 0, 0),
           Call("PrintSampleTable NG", ngl, 0, 0, 0)>>
         \o (IF c.XLSXFile # "" THEN <<Call("SaveToXLSX", okl \o ngl, total, okc, ngc)>> ELSE <<>>)
         \o (IF c.OKTSVFile # "" THEN <<Call("SaveListToTSV OK", okl, 0, 0, 0)>> ELSE <<>>)
         \o (IF c.NGTSVFile # "" THEN <<Call("SaveListToTSV NG", ngl, 0, 0, 0)>> ELSE <<>>)

Report(c, total, okc, ngc, okl, ngl) ==
    <<Call("PrintSummary", <<>>, total, okc, ngc),
      Call("PrintSampleTable OK", okl, 0, 0, 0),
      Call("PrintSampleTable NG", ngl, 0, 0, 0)>>
    \o (IF c.XLSXFile # "" THEN <<Call("SaveToXLSX", okl \o ngl, total, okc, ngc)>> ELSE <<>>)
    \o (IF c.OKTSVFile # "" THEN <<Call("SaveListToTSV OK", okl, 0, 0, 0)>> ELSE <<>>)
    \o (IF c.NGTSVFile # "" THEN <<Call("SaveListToTSV NG", ngl, 0, 0, 0)>> ELSE <<>>)

Done ==
    /\ pc = "DONE"
    /\ out' = Report(cfg, iters, okHits, ngHits, okList, ngList)
    /\ pc' = "exit"
    /\ ctxDone' = TRUE
    /\ UNCHANGED <<cfg, twin, term, rng, loopData, vals, j, y, ok, progress, gpc, sigCh, hist,
                   cancelAt>>

\* ------------------------------------------------------- the signal goroutine
Alive == pc \notin {"exit", "abort", "panic"}

\* os.Interrupt is delivered to sigCh; a signal that finds the buffer full is
\* dropped.
Interrupt ==
    /\ Alive
    /\ gpc # "nostart"
    /\ sigCh = 0
    /\ sigCh' = 1
    /\ UNCHANGED <<cfg, twin, mainVars, gpc, ctxDone, cancelAt>>

\* <-sigCh
Recv ==
    /\ Alive
    /\ gpc = "recv"
    /\ sigCh = 1
    /\ sigCh' = 0
    /\ gpc' = "got"
    /\ UNCHANGED <<cfg, twin, mainVars, ctxDone, cancelAt>>

\* cancel()
Cancel ==
    /\ Alive
    /\ gpc = "got"
    /\ ctxDone' = TRUE
    /\ gpc' = "end"
    /\ cancelAt' = <<iters, pc>>
    /\ UNCHANGED <<cfg, twin, mainVars, sigCh>>

Next ==
    \/ Start
    \/ LoopTop
    \/ SampleParam
    \/ Eval
    \/ Count
    \/ Retain
    \/ Incr
    \/ Done
    \/ Interrupt
    \/ Recv
    \/ Cancel

Spec == Init /\ [][Next]_vars

\* The steps of the main goroutine, which the Go scheduler keeps running.
MainStep == Start \/ LoopTop \/ SampleParam \/ Eval \/ Count \/ Retain \/ Incr \/ Done

\* The runs whose termination is explored: every problem and every MaxIters,
\* one seed, lists of capacity 1, progress off and on.
InitFair ==
    /\ Init
    /\ cfg.Seed = 0 /\ cfg.MaxOKSave = 1 /\ cfg.MaxNGSave = 1 /\ cfg.PrintEvery \in {0, 2}

SpecFair == InitFair /\ [][Next]_vars /\ WF_vars(MainStep)

\* ------------------------------------------------------------- the second run
\* "for _, p := range params" as a whole, from parameter i on.
RECURSIVE SampleFrom(_, _, _, _)
SampleFrom(r, params, i, v) ==
    IF i > Len(params) THEN [vals |-> v, rng |-> r, err |-> ""]
    ELSE LET s == sampleOne(r, params[i])
         IN  IF s.err # "" THEN [vals |-> v, rng |-> s.rng, err |-> s.err]
             ELSE SampleFrom(s.rng, params, i + 1, (params[i].Key :> s.v) @@ v)

\* One whole trial of the second run: the body of the loop, from the sampling
\* to the increment of iters.
TwinTrial ==
    /\ twin.pc = "top"
    /\ twin.iters < cfg.MaxIters
    /\ LET sm == SampleFrom(twin.rng, cfg.Params, 1, EmptyMap)
           e == f(cfg.F, sm.vals)
           k == Classify(e.y, cfg.YRange)
           s == [Values |-> sm.vals, Y |-> e.y, OK |-> k]
       IN  twin' =
             IF sm.err # "" THEN [twin EXCEPT !.pc = "abort", !.rng = sm.rng]
             ELSE IF e.panic THEN [twin EXCEPT !.pc = "panic", !.rng = sm.rng]
             ELSE [twin EXCEPT
                     !.rng = sm.rng,
                     !.okHits = IF k THEN @ + 1 ELSE @,
                     !.ngHits = IF k THEN @ ELSE @ + 1,
                     !.okList = IF k THEN Keep(@, s, cfg.MaxOKSave) ELSE @,
                     !.ngList = IF k THEN @ ELSE Keep(@, s, cfg.MaxNGSave),
                     !.hist = Append(@, s),
                     !.iters = @ + 1]
    /\ UNCHANGED <<cfg, mainVars, sigVars>>

NextPair == Next \/ TwinTrial

\* The pairs of runs explored: the longest runs, with progress and exports on.
InitPair == Init /\ cfg.MaxIters = MaxItersBound /\ cfg.PrintEvery = 2

SpecPair == InitPair /\ [][NextPair]_vars

\* ------------------------------------------- the classifier on its own inputs
\* Every extended value of the grid.
ValRange == -2..3
Floats == {Fin(v) : v \in ValRange} \cup {NaN, PInf, NInf}

\* A trial about to be evaluated, for every assignment over the grid and every
\* interval (the user function is the unguarded division, whose outputs are
\* finite, NaN, +Inf and -Inf).
InitClassify ==
    /\ cfg \in { [Params |-> <<Param("a", -2, 3, Linear), Param("b", -2, 3, Linear)>>,
                  YRange |-> [Min |-> lo, Max |-> hi], F |-> "div",
                  MaxIters |-> 1, MaxOKSave |-> 1, MaxNGSave |-> 1,
                  PrintEvery |-> 0, Seed |-> 0,
                  XLSXFile |-> "", OKTSVFile |-> "", NGTSVFile |-> ""] :
                 lo \in Floats, hi \in Floats }
    /\ pc = "eval"
    /\ term = ""
    /\ rng = Float64(Float64(NewRand(cfg.Seed)).rng).rng
    /\ iters = 0 /\ okHits = 0 /\ ngHits = 0
    /\ okList = <<>> /\ ngList = <<>>
    /\ vals \in [{"a", "b"} -> ValRange] /\ j = 3
    /\ y = NaN /\ ok = FALSE
    /\ progress = <<>> /\ out = <<>>
    /\ gpc = "recv" /\ sigCh = 0 /\ ctxDone = FALSE
    /\ hist = <<>> /\ cancelAt = <<>>
    /\ twin = TwinStart(cfg)

SpecClassify == InitClassify /\ [][Eval]_vars

\* --------------------------------------------- the sampler on its own inputs
SampleRange == -1..6

\* A trial about to sample its only parameter, for every ParamSpec over the
\* grid (valid or not) and every state of the generator.
InitSample ==
    /\ cfg \in { [Params |-> <<Param("a", lo, hi, sc)>>,
                  YRange |-> [Min |-> Fin(0), Max |-> Fin(1)], F |-> "id",
                  MaxIters |-> 1, MaxOKSave |-> 1, MaxNGSave |-> 1,
                  PrintEvery |-> 0, Seed |-> sd,
                  XLSXFile |-> "", OKTSVFile |-> "", NGTSVFile |-> ""] :
                 lo \in SampleRange, hi \in SampleRange,
                 sc \in {Linear, Log, UnknownScale}, sd \in 0..(RngMod - 1) }
    /\ pc = "sample"
    /\ term = ""
    /\ rng = NewRand(cfg.Seed)
    /\ iters = 0 /\ okHits = 0 /\ ngHits = 0
    /\ okList = <<>> /\ ngList = <<>>
    /\ vals = EmptyMap /\ j = 1
    /\ y = NaN /\ ok = FALSE
    /\ progress = <<>> /\ out = <<>>
    /\ gpc = "recv" /\ sigCh = 0 /\ ctxDone = FALSE
    /\ hist = <<>> /\ cancelAt = <<>>
    /\ twin = TwinStart(cfg)

SpecSample == InitSample /\ [][SampleParam]_vars

\* ===================================================================== claims
Min2(a, b) == IF a <= b THEN a ELSE b
MidTrial == {"retain", "incr"}

\* C1 (as stated): in every reachable state of the run, iters = okHits + ngHits.
C1_Original == iters = okHits + ngHits

\* C1 (amended): iters = okHits + ngHits holds at every trial boundary, while a
\* trial is being sampled and evaluated, and in every terminal state; between
\* the hit-counter increment and the iters increment of the trial in progress
\* the hit counters are exactly one ahead: okHits + ngHits = iters + 1.  Every
\* progress line printed satisfies the equality.
C1_CounterInvariant ==
    /\ pc \notin MidTrial => iters = okHits + ngHits
    /\ pc \in MidTrial => okHits + ngHits = iters + 1
    /\ \A n \in 1..Len(progress) : progress[n].i = progress[n].okh + progress[n].ngh

\* A third trial between its hit-counter increment and its iters increment,
\* after a progress line, with both classes met.
C1_Witness ==
    /\ pc = "incr" /\ iters = 2 /\ okHits >= 1 /\ ngHits >= 1 /\ Len(progress) = 1

\* C2: in every reachable state len(okList) <= min(okHits, MaxOKSave) and
\* len(ngList) <= min(ngHits, MaxNGSave).
C2_ListBounds ==
    /\ Len(okList) <= Min2(okHits, cfg.MaxOKSave)
    /\ Len(ngList) <= Min2(ngHits, cfg.MaxNGSave)

C2_Witness ==
    /\ cfg.MaxOKSave >= 1 /\ Len(okList) = cfg.MaxOKSave /\ okHits > cfg.MaxOKSave
    /\ cfg.MaxNGSave >= 1 /\ Len(ngList) = cfg.MaxNGSave

\* C3: once a list holds as many entries as its capacity (capacity 0 included),
\* a further trial of that class increments its hit counter and iters and leaves
\* the list as it is; and with both lists full the loop head still starts the
\* next trial unless a termination check fires.
C3_FullListsKeepCounting ==
    [][ /\ (pc = "count" /\ pc' # pc) =>
             IF ok THEN okHits' = okHits + 1 ELSE ngHits' = ngHits + 1
        /\ (pc = "retain" /\ pc' # pc /\ ok /\ Len(okList) = cfg.MaxOKSave) =>
             (okList' = okList /\ ngList' = ngList /\ pc' = "incr")
        /\ (pc = "retain" /\ pc' # pc /\ ~ok /\ Len(ngList) = cfg.MaxNGSave) =>
             (ngList' = ngList /\ okList' = okList /\ pc' = "incr")
        /\ (pc = "incr" /\ pc' # pc) => (iters' = iters + 1 /\ pc' = "top")
        /\ (/\ pc = "top" /\ pc' # pc
            /\ Len(okList) = cfg.MaxOKSave /\ Len(ngList) = cfg.MaxNGSave
            /\ iters < cfg.MaxIters /\ ~ctxDone) => pc' = "sample"
      ]_vars

C3_Witness ==
    /\ pc = "sample" /\ iters >= 2
    /\ cfg.MaxOKSave >= 1 /\ Len(okList) = cfg.MaxOKSave /\ okHits > cfg.MaxOKSave
    /\ Len(ngList) = cfg.MaxNGSave

\* min <= y <= max for a finite y, read on the extended real line.
InBand(v, r) ==
    /\ r.Min.k = "ninf" \/ (r.Min.k = "fin" /\ r.Min.v <= v)
    /\ r.Max.k = "pinf" \/ (r.Max.k = "fin" /\ v <= r.Max.v)

\* C4: a trial is classified OK if and only if its output y is finite and
\* YRange.Min <= y <= YRange.Max, both ends included; a NaN or infinite output
\* is NG whatever the interval.
C4_Classification ==
    pc = "count" =>
        /\ ok <=> (y.k = "fin" /\ InBand(y.v, cfg.YRange))
        /\ y.k # "fin" => ~ok

C4_Witness ==
    /\ pc = "count" /\ y = PInf /\ cfg.YRange.Max = PInf /\ cfg.YRange.Min = Fin(0) /\ ~ok

\* C5: the termination checks are made at the head of every trial, the count
\* first and the cancellation second: iters >= MaxIters ends the run as
\* Completed even when cancellation is also raised, a raised cancellation ends
\* it as Cancelled otherwise, and a trial starts (and DONE is entered) only from
\* the loop head, a trial only when neither check holds.
C5_TerminationOrder ==
    [][ /\ (pc = "top" /\ pc' # pc) =>
             /\ iters >= cfg.MaxIters => (pc' = "DONE" /\ term' = "Completed")
             /\ (iters < cfg.MaxIters /\ ctxDone) => (pc' = "DONE" /\ term' = "Cancelled")
             /\ (iters < cfg.MaxIters /\ ~ctxDone) =>
                    (pc' = "sample" /\ j' = 1 /\ vals' = EmptyMap /\ term' = "")
             /\ UNCHANGED <<rng, loopData, hist>>
        /\ (pc' = "DONE" /\ pc # "DONE") => pc = "top"
        /\ (pc' = "sample" /\ pc # "sample") => pc = "top"
        /\ (pc = "incr" /\ pc' # pc) => pc' = "top"
      ]_vars

\* Both checks held at the same boundary, and the run ended as Completed.
C5_Witness ==
    /\ pc = "DONE" /\ term = "Completed" /\ cfg.MaxIters >= 1
    /\ cancelAt # <<>> /\ cancelAt[2] # "DONE"

\* The calls of a finished run depend on the configuration alone.
ExpectedSteps(c) ==
    <<"PrintSummary", "PrintSampleTable OK", "PrintSampleTable NG">>
    \o (IF c.XLSXFile # "" THEN <<"SaveToXLSX">> ELSE <<>>)
    \o (IF c.OKTSVFile # "" THEN <<"SaveListToTSV OK">> ELSE <<>>)
    \o (IF c.NGTSVFile # "" THEN <<"SaveListToTSV NG">> ELSE <<>>)

\* C6: leaving the loop (by cancellation as by completion) changes no counter
\* and no list, neither does the reporting after DONE, and a finished run,
\* Cancelled or Completed, hands the counters and lists it holds to the same
\* summary, table and export calls.
C6_CancelKeepsResults ==
    /\ [](pc = "exit" =>
            /\ term \in {"Completed", "Cancelled"}
            /\ [n \in 1..Len(out) |-> out[n].step] = ExpectedSteps(cfg)
            /\ out[1].total = iters /\ out[1].okc = okHits /\ out[1].ngc = ngHits
            /\ out[2].list = okList /\ out[3].list = ngList
            /\ \A n \in 1..Len(out) :
                 /\ out[n].step = "SaveToXLSX" =>
                      /\ out[n].list = okList \o ngList
                      /\ out[n].total = iters /\ out[n].okc = okHits /\ out[n].ngc = ngHits
                 /\ out[n].step = "SaveListToTSV OK" => out[n].list = okList
                 /\ out[n].step = "SaveListToTSV NG" => out[n].list = ngList)
    /\ [][ /\ (pc = "top" /\ pc' = "DONE") => UNCHANGED <<loopData, hist, rng>>
           /\ pc \in {"DONE", "exit"} => UNCHANGED <<loopData, hist, rng, term>>
           /\ (pc = "DONE" /\ pc' # pc) => pc' = "exit"
         ]_vars

C6_Witness ==
    /\ pc = "exit" /\ term = "Cancelled" /\ iters >= 1 /\ iters < cfg.MaxIters
    /\ Len(okList) >= 1 /\ Len(ngList) >= 1 /\ cfg.XLSXFile # ""

InTrial == {"sample", "eval", "count", "retain", "incr"}

\* C7: cancel() may run at any point of main, but the loop leaves only at its
\* head: a run that has left the loop holds whole trials only, a trial that was
\* in progress when cancel() ran is classified, counted and retained before the
\* loop stops, and after cancel() ran with iters = n the run never counts more
\* than one further trial (it ends with iters = n if cancel() ran at the loop
\* head, with iters = n + 1 if it ran inside a trial).
C7_CancelAtBoundary ==
    /\ pc \in {"DONE", "exit"} => (Len(hist) = iters /\ okHits + ngHits = iters)
    /\ term = "Cancelled" => (cancelAt # <<>> /\ cancelAt[2] # "DONE")
    /\ cancelAt # <<>> =>
         LET n == cancelAt[1]
             at == cancelAt[2]
         IN  /\ iters \in {n, n + 1}
             /\ at \in {"top", "DONE"} => iters = n
             /\ (at \in InTrial /\ pc \in {"top", "DONE", "exit"}) =>
                    (iters = n + 1 /\ Len(hist) = n + 1)

C7_Witness ==
    /\ pc = "exit" /\ term = "Cancelled" /\ cancelAt # <<>>
    /\ cancelAt[2] = "eval" /\ iters = cancelAt[1] + 1 /\ iters >= 2 /\ iters < cfg.MaxIters

\* The domain errors the claim lists.
DomainError(p) ==
    \/ p.Max < p.Min
    \/ p.Scale = Log /\ (p.Min <= 0 \/ p.Max <= 0)
    \/ p.Scale \notin {Linear, Log}

\* C9: sampleOne fails exactly when Max < Min, or the scale is Log with a
\* non-positive bound, or the scale is unknown; with Min = Max it succeeds and
\* returns that point; a failing call takes no draw from the generator.
C9_SampleOneErrors ==
    pc # "sample" =>
        LET p == cfg.Params[1]
        IN  /\ pc = "abort" <=> DomainError(p)
            /\ (pc = "eval" /\ p.Min = p.Max) => vals[p.Key] = p.Min
            /\ pc = "abort" => rng = NewRand(cfg.Seed)

\* The parts of C9 that the sampler meets: the error cases, the degenerate
\* Linear parameter, the untouched generator on an error and the single draw
\* of a successful call.
C9_ErrorsAndLinearPoint ==
    pc # "sample" =>
        LET p == cfg.Params[1]
        IN  /\ pc = "abort" <=> DomainError(p)
            /\ (pc = "eval" /\ p.Min = p.Max /\ p.Scale = Linear) => vals[p.Key] = p.Min
            /\ pc = "abort" => rng = NewRand(cfg.Seed)
            /\ pc = "eval" => rng.n = 1

\* C10: a sampler error inside the loop ends main at once: the step that meets
\* it goes to the error return and changes no counter and no list, the run is
\* neither Completed nor Cancelled, nothing is reported afterwards, and (the
\* specs being immutable) no trial has been counted.
C10_SamplerErrorAborts ==
    /\ [](pc = "abort" =>
            /\ term = "" /\ out = <<>>
            /\ iters = 0 /\ okHits = 0 /\ ngHits = 0
            /\ okList = <<>> /\ ngList = <<>> /\ hist = <<>>)
    /\ [][ /\ (/\ pc = "sample" /\ sampleOne(rng, cfg.Params[j]).err # ""
               /\ (pc' # pc \/ j' # j)) =>
                  (pc' = "abort" /\ UNCHANGED <<loopData, term, out, hist, rng>>)
           /\ (pc' = "abort" /\ pc # "abort") =>
                  (pc = "sample" /\ sampleOne(rng, cfg.Params[j]).err # "")
           /\ pc = "abort" => UNCHANGED <<pc, term, loopData, out, hist, rng>>
         ]_vars

\* The error is met at the second parameter, after the first took its draw,
\* with cancellation raised meanwhile.
C10_Witness == pc = "abort" /\ rng.n = 1 /\ cfg.MaxIters >= 2 /\ cancelAt # <<>>

\* C8: two runs of the same configuration (seed, parameter specs in order,
\* interval, capacities, evaluator), started at different times and interrupted
\* or not at different points, produce the same sequence of assignments,
\* outputs and classifications, and after the same number of trials hold the
\* same counters, the same retained lists and the same generator state.
C8_Determinism ==
    /\ \A t \in 1..Min2(Len(hist), Len(twin.hist)) : hist[t] = twin.hist[t]
    /\ (pc \in {"top", "DONE", "exit"} /\ twin.pc = "top" /\ iters = twin.iters) =>
          /\ okHits = twin.okHits /\ ngHits = twin.ngHits
          /\ okList = twin.okList /\ ngList = twin.ngList
          /\ rng = twin.rng

C8_Witness ==
    /\ pc = "exit" /\ term = "Cancelled" /\ iters = twin.iters /\ iters >= 2
    /\ Len(okList) >= 1 /\ Len(ngList) >= 1 /\ Len(cfg.Params) >= 2

\* Some parameter has invalid domain bounds.
InvalidBounds(p) == p.Max < p.Min \/ (p.Scale = Log /\ (p.Min <= 0 \/ p.Max <= 0))
HasInvalidBounds(c) == \E i \in 1..Len(c.Params) : InvalidBounds(c.Params[i])

\* C11: a configuration in which some parameter has invalid domain bounds never
\* ends as Completed or Cancelled and never reports a Result Set, whatever
\* MaxIters is and whenever cancellation is raised.
C11_InvalidBoundsNeverReport ==
    HasInvalidBounds(cfg) => (term = "" /\ pc \notin {"DONE", "exit"} /\ out = <<>>)

\* Two parameters share a key, or a key is empty.
HasBadKeys(params) ==
    \/ \E i \in 1..Len(params) : params[i].Key = ""
    \/ \E i, h \in 1..Len(params) : i # h /\ params[i].Key = params[h].Key

\* C12: with a duplicate or an empty parameter key the run is aborted before the
\* loop starts: it goes from the key check to the panic, the generator is never
\* created or drawn from, no trial is sampled, evaluated or counted, and
\* nothing is reported.
C12_BadKeysAbortBeforeLoop ==
    HasBadKeys(cfg.Params) =>
        /\ pc \in {"start", "panic"}
        /\ rng = NewRand(0) /\ gpc = "nostart"
        /\ iters = 0 /\ okHits = 0 /\ ngHits = 0
        /\ okList = <<>> /\ ngList = <<>> /\ hist = <<>> /\ vals = EmptyMap
        /\ term = "" /\ out = <<>>

C12_Witness ==
    /\ pc = "panic" /\ Len(cfg.Params) = 2 /\ cfg.Params[1].Key = cfg.Params[2].Key
    /\ cfg.MaxIters >= 1

\* The keys the modelled user functions read.
KeysRead(F) == IF F = "nan" THEN {} ELSE IF F = "id" THEN {"a"} ELSE {"a", "b"}

\* C13: Get returns x[key] for a key of the assignment and panics for any other
\* key, without ever standing a default in for it: an evaluation that reads an
\* undeclared key goes to the panic at once, in the first trial, with nothing
\* counted, retained or reported; an evaluation that reads declared keys only
\* computes from their sampled values.
C13_GetFailsFast ==
    /\ [](pc = "panic" /\ ~HasBadKeys(cfg.Params) =>
            /\ ~(KeysRead(cfg.F) \subseteq DOMAIN vals)
            /\ iters = 0 /\ okHits = 0 /\ ngHits = 0
            /\ okList = <<>> /\ ngList = <<>> /\ hist = <<>>
            /\ term = "" /\ out = <<>>)
    /\ [][ (pc = "eval" /\ pc' # pc) =>
             IF KeysRead(cfg.F) \subseteq DOMAIN vals
             THEN /\ pc' = "count"
                  /\ cfg.F = "id" => y' = Fin(vals["a"])
                  /\ cfg.F = "div" => y' = FDiv(vals["a"], vals["b"])
             ELSE pc' = "panic" /\ UNCHANGED <<loopData, hist, out, term>>
         ]_vars

\* The user function read "b", which is no parameter, in the first trial.
C13_Witness ==
    /\ pc = "panic" /\ DOMAIN vals = {"a"} /\ cfg.F = "div" /\ rng.n = 1
    /\ cfg.MaxIters >= 2

\* C14: a value sampleOne returns without error lies in the parameter's
\* domain: Min <= v <= Max for a Linear parameter; v > 0 and
\* ln(Min) <= ln(v) <= ln(Max) for a Log parameter, which, the logarithm being
\* strictly increasing on the positive numbers, is v > 0 and Min <= v <= Max.
C14_SampleInDomain ==
    pc = "eval" =>
        LET p == cfg.Params[1]
            v == vals[p.Key]
        IN  /\ p.Scale = Linear => (p.Min <= v /\ v <= p.Max)
            /\ p.Scale = Log => (v > 0 /\ p.Min <= v /\ v <= p.Max)

\* The part of C14 that the sampler meets: a Linear value lies in [Min, Max],
\* a Log value is positive and its computed logarithm lies between the
\* computed logarithms of the bounds.
C14_LinearAndLogExponent ==
    pc = "eval" =>
        LET p == cfg.Params[1]
            v == vals[p.Key]
        IN  /\ p.Scale = Linear => (p.Min <= v /\ v <= p.Max)
            /\ p.Scale = Log =>
                  (v > 0 /\ MathLog(p.Min) <= MathLog(v) /\ MathLog(v) <= MathLog(p.Max))

\* The configuration has no defect of its own: keys distinct and non-empty,
\* every parameter samplable.
SoundParams(c) ==
    /\ ~HasBadKeys(c.Params)
    /\ \A i \in 1..Len(c.Params) : ~DomainError(c.Params[i])

\* C15: with an evaluator that returns NaN on every call, whatever the interval,
\* no trial is ever OK: okHits = 0 and okList is empty in every state, every
\* retained outcome is an NG one whose output is NaN, ngHits = iters after any
\* number of trials, and the run (its parameters being sound) neither aborts
\* nor panics but ends, Completed or Cancelled, with its report.
C15_AllNaN ==
    /\ [](cfg.F = "nan" =>
            /\ okHits = 0 /\ okList = <<>>
            /\ \A i \in 1..Len(hist) : ~hist[i].OK /\ IsNaN(hist[i].Y)
            /\ pc \in {"top", "DONE", "exit"} => ngHits = iters
            /\ pc \in {"DONE", "exit"} => term \in {"Completed", "Cancelled"}
            /\ SoundParams(cfg) => pc \notin {"abort", "panic"})
    /\ (cfg.F = "nan" /\ SoundParams(cfg)) =>
            <>(pc = "exit" /\ term \in {"Completed", "Cancelled"} /\ out # <<>>)

\* Every trial came out NaN, under the interval [-Inf, +Inf], and the run ended.
C15_Witness ==
    /\ cfg.F = "nan" /\ pc = "exit" /\ term = "Completed"
    /\ iters >= 2 /\ ngHits = iters /\ cfg.YRange.Min = NInf /\ cfg.YRange.Max = PInf
    /\ cfg.MaxNGSave >= 1 /\ Len(ngList) >= 1

\* max(m, 0)
Max0(m) == IF m > 0 THEN m ELSE 0

\* main is in the loop.
Running == pc \in {"top", "sample", "eval", "count", "retain", "incr"}

\* C16: iters never exceeds MaxIters (it stays 0 when MaxIters <= 0); the loop is
\* left only by the break on iters >= MaxIters (then iters = max(MaxIters, 0)),
\* by goto DONE on an observed cancellation, by the return on a sampler error,
\* or by an evaluator that does not return (a panic inside it); and every run
\* does leave the loop and comes to its end.
C16_LoopTerminates ==
    /\ [](/\ iters <= Max0(cfg.MaxIters)
          /\ cfg.MaxIters <= 0 => (iters = 0 /\ hist = <<>> /\ rng.n = 0)
          /\ (pc \in {"DONE", "exit"} /\ term = "Completed") => iters = Max0(cfg.MaxIters)
          /\ (pc \in {"DONE", "exit"} /\ term = "Cancelled") =>
                (ctxDone /\ cancelAt # <<>> /\ iters < cfg.MaxIters)
          /\ pc \in {"DONE", "exit"} => term \in {"Completed", "Cancelled"}
          /\ pc = "abort" => \E i \in 1..Len(cfg.Params) : DomainError(cfg.Params[i])
          /\ pc = "panic" =>
                (HasBadKeys(cfg.Params) \/ ~(KeysRead(cfg.F) \subseteq DOMAIN vals)))
    /\ [][ (Running /\ ~Running') =>
             \/ pc = "top" /\ pc' = "DONE" /\ term' = "Completed" /\ iters >= cfg.MaxIters
             \/ pc = "top" /\ pc' = "DONE" /\ term' = "Cancelled" /\ ctxDone
             \/ pc = "sample" /\ pc' = "abort" /\ sampleOne(rng, cfg.Params[j]).err # ""
             \/ pc = "eval" /\ pc' = "panic" /\ f(cfg.F, vals).panic
         ]_vars
    /\ <>(pc \in {"exit", "abort", "panic"})

\* The run stopped because iters reached MaxIters, with Ctrl-C raised too late
\* to be observed.
C16_Witness ==
    /\ pc = "exit" /\ term = "Completed" /\ iters = cfg.MaxIters /\ iters >= 2
    /\ ctxDone /\ cancelAt # <<>>

\* MaxIters <= 0: the run ends with zero trials.
C16_WitnessNoTrials == pc = "exit" /\ cfg.MaxIters < 0 /\ iters = 0 /\ term = "Completed"

\* C17: the progress lines printed so far are exactly those of the trials whose
\* new iters value is a positive multiple of PrintEvery, in order (none when
\* PrintEvery <= 0); each line shows iters = okHits + ngHits with the counters
\* of that moment; and the step that prints changes nothing but iters and the
\* position of main: no hit counter, no list, no generator state, no
\* cancellation state, so that the next loop head decides by iters, MaxIters
\* and the cancellation alone.
C17_ProgressReports ==
    /\ [](/\ cfg.PrintEvery <= 0 => progress = <<>>
          /\ cfg.PrintEvery > 0 =>
                /\ Len(progress) = iters \div cfg.PrintEvery
                /\ \A m \in 1..Len(progress) : progress[m].i = m * cfg.PrintEvery
          /\ \A m \in 1..Len(progress) :
                /\ progress[m].i = progress[m].okh + progress[m].ngh
                /\ progress[m].okh = Cardinality({t \in 1..progress[m].i : hist[t].OK})
                /\ progress[m].ngh = Cardinality({t \in 1..progress[m].i : ~hist[t].OK}))
    /\ [][ /\ progress' # progress =>
                /\ pc = "incr" /\ pc' = "top" /\ iters' = iters + 1
                /\ progress' = Append(progress, [i |-> iters', okh |-> okHits, ngh |-> ngHits])
                /\ UNCHANGED <<okHits, ngHits, okList, ngList, rng, hist, term, out,
                               ctxDone, gpc, sigCh>>
           /\ (pc = "incr" /\ pc' # pc) =>
                (progress' # progress <=>
                    (cfg.PrintEvery > 0 /\ iters' % cfg.PrintEvery = 0))
           /\ (pc = "top" /\ pc' # pc) =>
                (pc' = "DONE" <=> (iters >= cfg.MaxIters \/ ctxDone))
         ]_vars

\* One line after the second trial, none after the third.
C17_Witness ==
    /\ cfg.PrintEvery = 2 /\ pc = "top" /\ iters = 3 /\ Len(progress) = 1
    /\ progress[1].okh >= 1 /\ progress[1].ngh >= 1

\* P, the number of parameters.
NumParams == Len(cfg.Params)

\* The generator after m draws.
RECURSIVE RngAfter(_, _)
RngAfter(r, m) == IF m = 0 THEN r ELSE RngAfter(Float64(r).rng, m - 1)

\* C18: the single stream is drawn from once per parameter of each trial, in
\* the configured order and before the evaluator is called, a parameter with
\* Min = Max included: with P parameters the stream stands at iters * P draws
\* at every loop head and at the end, at iters * P + (j - 1) before parameter j
\* is sampled, at (iters + 1) * P from the evaluation to the end of the trial;
\* parameter j of counted trial t holds the value made from draw
\* (t - 1) * P + j; only the sampling of a parameter moves the stream, by one
\* draw.
C18_DrawsPerTrial ==
    /\ [](/\ pc \in {"top", "DONE", "exit"} => rng.n = iters * NumParams
          /\ pc = "sample" => (j \in 1..NumParams /\ rng.n = iters * NumParams + (j - 1))
          /\ pc \in {"eval", "count", "retain", "incr"} =>
                (rng.n = (iters + 1) * NumParams /\ j = NumParams + 1)
          /\ pc \in {"top", "DONE", "exit"} => Len(hist) = iters
          /\ \A t \in 1..Len(hist) : \A i \in 1..NumParams :
                hist[t].Values[cfg.Params[i].Key] =
                    sampleOne(RngAfter(NewRand(cfg.Seed), (t - 1) * NumParams + (i - 1)),
                              cfg.Params[i]).v)
    /\ [][ (rng' # rng /\ pc # "start") =>
              /\ pc = "sample" /\ rng'.n = rng.n + 1 /\ j' = j + 1
              /\ rng' = Float64(rng).rng
              /\ UNCHANGED <<iters, y, ok, hist>>
         ]_vars

\* Two parameters, the second with Min = Max: four draws after two trials.
C18_Witness ==
    /\ pc = "top" /\ iters = 2 /\ Len(cfg.Params) = 2 /\ rng.n = 4
    /\ cfg.Params[2].Min = cfg.Params[2].Max

\* main has left the loop for good.
Terminal == pc \in {"DONE", "exit", "abort", "panic"}

\* C19: the lists change only in the retention step of a trial, which appends
\* the trial's outcome to at most one list, the one of its class; so every
\* entry of okList is OK with a finite output inside the interval, every entry
\* of ngList is NG, the two lists together never hold more entries than trials
\* were classified, and once the loop is left the lists stay as they are.
C19_ListsMatchClass ==
    /\ [](/\ \A i \in 1..Len(okList) :
                /\ okList[i].OK /\ okList[i].Y.k = "fin"
                /\ InBand(okList[i].Y.v, cfg.YRange)
          /\ \A i \in 1..Len(ngList) :
                /\ ~ngList[i].OK
                /\ ~(ngList[i].Y.k = "fin" /\ InBand(ngList[i].Y.v, cfg.YRange))
          /\ Len(okList) + Len(ngList) <= Len(hist))
    /\ [][ /\ Len(okList') + Len(ngList') <= Len(okList) + Len(ngList) + 1
           /\ okList' # okList =>
                /\ pc = "retain" /\ pc' = "incr" /\ ok /\ ngList' = ngList
                /\ okList' = Append(okList, [Values |-> vals, Y |-> y, OK |-> TRUE])
           /\ ngList' # ngList =>
                /\ pc = "retain" /\ pc' = "incr" /\ ~ok /\ okList' = okList
                /\ ngList' = Append(ngList, [Values |-> vals, Y |-> y, OK |-> FALSE])
           /\ Terminal => (Terminal' /\ UNCHANGED <<okList, ngList>>)
         ]_vars

\* Both lists hold an outcome of their class and the report has been made.
C19_Witness ==
    /\ pc = "exit" /\ Len(okList) >= 1 /\ Len(ngList) >= 1 /\ iters = 3
    /\ okHits > Len(okList)

\* The OK-classified and the NG-classified outcomes of a sequence of trials.
IsOK(s) == s.OK
IsNG(s) == ~s.OK
OKOf(h) == SelectSeq(h, IsOK)
NGOf(h) == SelectSeq(h, IsNG)

\* The first n entries of a sequence.
FirstN(q, n) == SubSeq(q, 1, n)

\* a is a prefix of b.
IsPrefix(a, b) == Len(a) <= Len(b) /\ a = SubSeq(b, 1, Len(a))

\* The trials classified so far, in trial order: those whose retention step has
\* run, and the trial in progress once its hit counter has been incremented.
Classified ==
    IF pc = "retain" THEN Append(hist, [Values |-> vals, Y |-> y, OK |-> ok]) ELSE hist

\* C20 (as stated): in every reachable state okList equals the outcomes of the
\* first min(okHits, MaxOKSave) OK-classified trials in trial order, and ngList
\* those of the first min(ngHits, MaxNGSave) NG-classified trials.
C20_Original ==
    /\ okHits = Len(OKOf(Classified)) /\ ngHits = Len(NGOf(Classified))
    /\ okList = FirstN(OKOf(Classified), Min2(okHits, cfg.MaxOKSave))
    /\ ngList = FirstN(NGOf(Classified), Min2(ngHits, cfg.MaxNGSave))

\* C20 (amended): okList is append-only and equals the outcomes of the first
\* min(k, MaxOKSave) OK-classified trials in trial order, k being the number of
\* OK trials whose retention step has run: k = okHits everywhere except between
\* the hit-counter increment and the retention of an OK trial in progress,
\* where k = okHits - 1 and the list may still lack that trial (ngList likewise
\* with ngHits); an entry once retained is never removed, reordered or
\* replaced, and every retained assignment has exactly the configured keys.
C20_RetainedPrefix ==
    /\ [](/\ okList = FirstN(OKOf(hist), Min2(Len(OKOf(hist)), Max0(cfg.MaxOKSave)))
          /\ ngList = FirstN(NGOf(hist), Min2(Len(NGOf(hist)), Max0(cfg.MaxNGSave)))
          /\ okHits = Len(OKOf(hist)) + (IF pc = "retain" /\ ok THEN 1 ELSE 0)
          /\ ngHits = Len(NGOf(hist)) + (IF pc = "retain" /\ ~ok THEN 1 ELSE 0)
          /\ \A i \in 1..Len(hist) :
                DOMAIN hist[i].Values = {cfg.Params[h].Key : h \in 1..NumParams})
    /\ [][IsPrefix(okList, okList') /\ IsPrefix(ngList, ngList')]_vars

\* A full okList after a later OK trial, with an NG trial before the first OK one.
C20_Witness ==
    /\ pc = "top" /\ cfg.MaxOKSave = 1 /\ Len(okList) = 1 /\ okHits = 2
    /\ Len(hist) = 3 /\ ~hist[1].OK /\ okList[1] = hist[2]

====
